---- MODULE Spec2Model ----
(***************************************************************************)
(* A model of the acme-dns client (acme-dns-client/src/lib.rs):            *)
(*   AcmeDnsClient::new / register / update_txt / health                   *)
(*   Credentials::from_env                                                 *)
(* Strings that the code takes apart (the base URL, ACME_DNS_ALLOWFROM)    *)
(* are sequences of one-character tokens; strings the code only carries    *)
(* around are TLA+ strings.                                                *)
(***************************************************************************)
EXTENDS Integers, Sequences, FiniteSets, TLC

VARIABLES
    env,      \* the process environment: variable name -> value
    client,   \* the result of AcmeDnsClient::new
    server,   \* what the server behind the base URL can answer
    calls,    \* task -> the register / update_txt / health call it is running
    fe        \* the progress of Credentials::from_env

vars == <<env, client, server, calls, fe>>

----------------------------------------------------------------------------
(* Bounds of the model *)

\* longest ACME_DNS_ALLOWFROM value, in characters
MaxLen == 3
\* most path segments of a base URL
MaxSegs == 1
\* most fields of a response payload (or variables of an environment) that
\* differ from the fully populated one
MaxOdd == 1
\* concurrent callers sharing one client
MaxTasks == 2

(* Program constants *)

StatusOK == 200
StatusCreated == 201
StatusBadRequest == 400
StatusInternalServerError == 500

----------------------------------------------------------------------------
(* Result<T, Error>: error.rs *)

Ok(v) == [tag |-> "Ok", val |-> v]
ErrUrl == [tag |-> "Url"]
ErrHttp == [tag |-> "Http"]
ErrJson == [tag |-> "Json"]
UnexpectedStatus(status, body) ==
    [tag |-> "UnexpectedStatus", status |-> status, body |-> body]
MissingEnv(name) == [tag |-> "MissingEnv", name |-> name]

None == [tag |-> "None"]
Some(v) == [tag |-> "Some", val |-> v]
Unit == "()"

----------------------------------------------------------------------------
(* Sequences of tokens *)

Front(s) == SubSeq(s, 1, Len(s) - 1)
Last(s) == s[Len(s)]

\* all sequences over S of length at most n
RECURSIVE SeqsUpTo(_, _)
SeqsUpTo(S, n) ==
    IF n = 0 THEN {<<>>}
    ELSE LET shorter == SeqsUpTo(S, n - 1)
         IN  shorter \cup {Append(s, x) : s \in shorter, x \in S}

\* str::split(sep): the pieces between separators, in order; n separators
\* give n + 1 pieces, so the empty string gives one empty piece
RECURSIVE SplitFrom(_, _, _, _)
SplitFrom(s, sep, i, piece) ==
    IF i > Len(s) THEN <<piece>>
    ELSE IF s[i] = sep THEN <<piece>> \o SplitFrom(s, sep, i + 1, <<>>)
    ELSE SplitFrom(s, sep, i + 1, Append(piece, s[i]))

Split(s, sep) == SplitFrom(s, sep, 1, <<>>)

----------------------------------------------------------------------------
(* url::Url, as AcmeDnsClient uses it *)

\* The text of a base URL: a scheme ("" when the text has none), and for an
\* https URL the tokens after the host, e.g. <<"/", "api", "/">> for
\* https://h/api/.
SegNames == {"api"}

RECURSIVE PathTexts(_)
PathTexts(n) ==
    IF n = 0 THEN {<<>>, <<"/">>}
    ELSE PathTexts(n - 1)
         \cup {p \o <<"/", x>> \o t :
                 p \in {q \in PathTexts(n - 1) : q = <<>> \/ Last(q) # "/"},
                 x \in SegNames, t \in {<<>>, <<"/">>}}

BaseTexts ==
    {[scheme |-> "", rest |-> <<"not a url">>],
     [scheme |-> "mailto", rest |-> <<"x">>]}
    \cup {[scheme |-> "https", rest |-> p] : p \in PathTexts(MaxSegs)}

\* Url::parse: a text without a scheme is an error; a non-special scheme
\* without "//" gives a cannot-be-a-base URL; an https URL gets the list of
\* its path segments, an empty path becoming "/" (one empty segment).
PathSegments(rest) ==
    IF rest = <<>> THEN << <<>> >> ELSE Tail(Split(rest, "/"))

UrlParse(text) ==
    IF text.scheme = "" THEN ErrUrl
    ELSE IF text.scheme # "https"
         THEN Ok([scheme |-> text.scheme, cab |-> TRUE, path |-> <<text.rest>>])
    ELSE Ok([scheme |-> "https", cab |-> FALSE, path |-> PathSegments(text.rest)])

\* Url::join with a one-segment relative reference: an error on a
\* cannot-be-a-base URL; otherwise the base's last path segment is removed
\* and the reference takes its place.
Join(base, rel) ==
    IF base.cab THEN ErrUrl
    ELSE Ok([base EXCEPT !.path = Append(Front(base.path), <<rel>>)])

\* AcmeDnsClient::new: Url::parse(..)?, then HttpClient::builder().build()?,
\* whose outcome built is Ok(the transport handle) or the transport's error
New(text, built) ==
    LET base == UrlParse(text)
    IN  IF base.tag # "Ok" THEN base
        ELSE IF built.tag # "Ok" THEN built
        ELSE Ok([base_url |-> base.val, http |-> built.val])

----------------------------------------------------------------------------
(* Credentials and the payloads of the server *)

Required == <<"username", "password", "subdomain", "fulldomain">>
RequiredSet == {Required[i] : i \in DOMAIN Required}
Fields == RequiredSet \cup {"allowfrom"}

\* a JSON value of a payload field, or its absence
Absent == [t |-> "absent"]
JNull == [t |-> "null"]
JStr(s) == [t |-> "str", v |-> s]
JArr(a) == [t |-> "arr", a |-> a]

GoodObject ==
    [f \in Fields |-> IF f = "allowfrom" THEN JArr(<<"192.168.100.1/24">>)
                      ELSE JStr("v")]

FieldValues(f) ==
    IF f = "allowfrom"
    THEN {Absent, JNull, JArr(<<>>), JArr(<<"192.168.100.1/24">>)}
    ELSE {Absent, JNull, JStr(""), JStr("v")}

JsonObjects ==
    {o \in [Fields -> UNION {FieldValues(f) : f \in Fields}] :
        /\ \A f \in Fields : o[f] \in FieldValues(f)
        /\ Cardinality({f \in Fields : o[f] # GoodObject[f]}) <= MaxOdd}

\* the text of a response body: not JSON at all, or a JSON object
Raw(s) == [kind |-> "raw", s |-> s]
Json(o) == [kind |-> "json", obj |-> o]
EmptyText == Raw("")

Bodies ==
    {Raw(s) : s \in {"", "bad request", "this is not json"}}
    \cup {Json(o) : o \in JsonObjects}

\* serde_json::from_str::<Credentials>: the four String fields are required,
\* allowfrom is #[serde(default)]
ParseLenient(text) ==
    IF text.kind # "json" THEN ErrJson
    ELSE LET o == text.obj
             str(f) == IF o[f].t = "str" THEN o[f].v ELSE ""
         IN  Ok([username |-> str("username"), password |-> str("password"),
                 subdomain |-> str("subdomain"), fulldomain |-> str("fulldomain"),
                 allowfrom |-> IF o["allowfrom"].t = "arr"
                               THEN o["allowfrom"].a ELSE <<>>])

ParseNoDefault(text) ==
    IF text.kind # "json" THEN ErrJson
    ELSE LET o == text.obj
         IN  IF \E f \in RequiredSet : o[f].t # "str" THEN ErrJson
             ELSE IF o["allowfrom"].t # "arr" THEN ErrJson
             ELSE Ok([username |-> o["username"].v, password |-> o["password"].v,
                      subdomain |-> o["subdomain"].v,
                      fulldomain |-> o["fulldomain"].v,
                      allowfrom |-> o["allowfrom"].a])

ParseCredentials(text) ==
    IF text.kind # "json" THEN ErrJson
    ELSE LET o == text.obj
         IN  IF \E f \in RequiredSet : o[f].t # "str" THEN ErrJson
             ELSE IF o["allowfrom"].t = "null" THEN ErrJson
             ELSE Ok([username |-> o["username"].v, password |-> o["password"].v,
                      subdomain |-> o["subdomain"].v,
                      fulldomain |-> o["fulldomain"].v,
                      allowfrom |-> IF o["allowfrom"].t = "absent"
                                    THEN <<>> ELSE o["allowfrom"].a])

\* a response: its status, the text of its body, and whether reading the
\* body (Response::text) succeeds
Statuses == {StatusOK, StatusCreated, StatusBadRequest, StatusInternalServerError}
Responses == [status : Statuses, body : Bodies, readable : BOOLEAN]

\* the responses of a server that answers with the statuses srv.statuses,
\* with any payload or only the two plain ones, and that may or may not
\* break off while the body is read
PlainBodies == {Raw("bad request"), Json(GoodObject)}

Served(srv) ==
    {r \in Responses :
        /\ r.status \in srv.statuses
        /\ srv.payloads = "plain" => r.body \in PlainBodies
        /\ ~srv.breaks => r.readable}

AnyServer == [statuses |-> Statuses, payloads |-> "any", breaks |-> TRUE]

----------------------------------------------------------------------------
(* The three operations of AcmeDnsClient, as pure functions of a response *)

RegisterAccepts2xx(status) == status \in {StatusOK, StatusCreated}

\* register: status != StatusCode::CREATED is a failure
RegisterAccepts(status) == status = StatusCreated

UpdateAccepts2xx(status) == status \in {StatusOK, StatusCreated}

\* update_txt: status != StatusCode::OK is a failure
UpdateAccepts(status) == status = StatusOK

\* health: status != StatusCode::OK is a failure
HealthAccepts(status) == status = StatusOK

\* register, from the response on: text().await?, the status check, the parse
RegisterResult(resp) ==
    IF ~resp.readable THEN ErrHttp
    ELSE IF ~RegisterAccepts(resp.status)
         THEN UnexpectedStatus(resp.status, resp.body)
    ELSE ParseCredentials(resp.body)

\* update_txt, from the response on: text().await?, the status check
UpdateResult(resp) ==
    IF ~resp.readable THEN ErrHttp
    ELSE IF ~UpdateAccepts(resp.status)
         THEN UnexpectedStatus(resp.status, resp.body)
    ELSE Ok(Unit)

\* resp.text().await, as health calls it
HealthBody(resp) == IF resp.readable THEN Ok(resp.body) ELSE ErrHttp

\* Result<String, _>::unwrap_or_default
UnwrapOrDefault(r) == IF r.tag = "Ok" THEN r.val ELSE EmptyText

HealthResultStrict(resp) ==
    IF HealthAccepts(resp.status) THEN Ok(Unit)
    ELSE IF ~resp.readable THEN ErrHttp
    ELSE UnexpectedStatus(resp.status, resp.body)

\* health, from the response on: the status check, then the best-effort read
HealthResult(resp) ==
    IF HealthAccepts(resp.status) THEN Ok(Unit)
    ELSE UnexpectedStatus(resp.status, UnwrapOrDefault(HealthBody(resp)))

\* how often each operation calls Response::text
RegisterReads(resp) == 1
UpdateReads(resp) == 1
HealthReads(resp) == IF HealthAccepts(resp.status) THEN 0 ELSE 1

----------------------------------------------------------------------------
(* The calls in progress *)

Tasks == DOMAIN calls

Idle ==
    [pc |-> "idle", op |-> "none", arg |-> None, req |-> None,
     sent |-> 0, reads |-> 0, resp |-> None, result |-> None]

AllowFromArgs == {None, Some(<<"10.0.0.0/8">>)}

TestCreds ==
    [username |-> "user-uuid", password |-> "pw", subdomain |-> "8e57",
     fulldomain |-> "8e57.auth.acme-dns.io", allowfrom |-> <<>>]

UpdateArgs == {[creds |-> TestCreds, txt |-> "token123"]}

\* RegistrationRequest: allowfrom is skipped when it is None
RegistrationBody(allow_from) ==
    IF allow_from = None THEN {} ELSE {<<"allowfrom", allow_from.val>>}

\* UpdateRequest
UpdateBody(creds, txt) == {<<"subdomain", creds.subdomain>>, <<"txt", txt>>}

\* the `?` on base_url.join: the error ends the call before anything is sent
Start(op, arg, rel, method, headers, body) ==
    LET url == Join(client.val.base_url, rel)
    IN  IF url.tag # "Ok"
        THEN [Idle EXCEPT !.pc = "done", !.op = op, !.arg = arg, !.result = url]
        ELSE [Idle EXCEPT !.pc = "joined", !.op = op, !.arg = arg,
                          !.req = [method |-> method, url |-> url.val,
                                   headers |-> headers, body |-> body]]

\* A call needs a constructed client. from_env is synchronous: no call of
\* the same program starts while it runs (fe.pc = "idle").
Register(t, allow_from) ==
    /\ client.tag = "Ok"
    /\ fe.pc = "idle"
    /\ calls[t].pc = "idle"
    /\ calls' = [calls EXCEPT ![t] =
           Start("register", allow_from, "register", "POST", {},
                 Some(RegistrationBody(allow_from)))]
    /\ UNCHANGED <<env, client, server, fe>>

UpdateTxt(t, a) ==
    /\ client.tag = "Ok"
    /\ fe.pc = "idle"
    /\ calls[t].pc = "idle"
    /\ calls' = [calls EXCEPT ![t] =
           Start("update_txt", a, "update", "POST",
                 {<<"X-Api-User", a.creds.username>>,
                  <<"X-Api-Key", a.creds.password>>},
                 Some(UpdateBody(a.creds, a.txt)))]
    /\ UNCHANGED <<env, client, server, fe>>

Health(t) ==
    /\ client.tag = "Ok"
    /\ fe.pc = "idle"
    /\ calls[t].pc = "idle"
    /\ calls' = [calls EXCEPT ![t] = Start("health", None, "health", "GET", {}, None)]
    /\ UNCHANGED <<env, client, server, fe>>

\* .send(): the request leaves
Send(t) ==
    /\ calls[t].pc = "joined"
    /\ calls' = [calls EXCEPT ![t].pc = "sent", ![t].sent = @ + 1]
    /\ UNCHANGED <<env, client, server, fe>>

OnSendErrorRetry(c) == [c EXCEPT !.pc = "joined"]

\* the `?` on .send().await: a transport error ends the call
OnSendError(c) == [c EXCEPT !.pc = "done", !.result = ErrHttp]

SendFails(t) ==
    /\ calls[t].pc = "sent"
    /\ calls' = [calls EXCEPT ![t] = OnSendError(calls[t])]
    /\ UNCHANGED <<env, client, server, fe>>

\* .send().await returns the response (its status and headers)
Respond(t, r) ==
    /\ calls[t].pc = "sent"
    /\ r \in Served(server)
    /\ calls' = [calls EXCEPT ![t].pc = "head", ![t].resp = r]
    /\ UNCHANGED <<env, client, server, fe>>

RespShared(t) ==
    calls[CHOOSE u \in Tasks : calls[u].resp # None /\
            \A w \in Tasks : calls[w].resp # None => u <= w].resp

\* `resp`, the call's own local
RespOf(t) == calls[t].resp

RegisterFinish(t) ==
    /\ calls[t].pc = "head"
    /\ calls[t].op = "register"
    /\ calls' = [calls EXCEPT ![t].pc = "done",
                              ![t].reads = @ + RegisterReads(RespOf(t)),
                              ![t].result = RegisterResult(RespOf(t))]
    /\ UNCHANGED <<env, client, server, fe>>

UpdateTxtFinish(t) ==
    /\ calls[t].pc = "head"
    /\ calls[t].op = "update_txt"
    /\ calls' = [calls EXCEPT ![t].pc = "done",
                              ![t].reads = @ + UpdateReads(RespOf(t)),
                              ![t].result = UpdateResult(RespOf(t))]
    /\ UNCHANGED <<env, client, server, fe>>

HealthFinish(t) ==
    /\ calls[t].pc = "head"
    /\ calls[t].op = "health"
    /\ calls' = [calls EXCEPT ![t].pc = "done",
                              ![t].reads = @ + HealthReads(RespOf(t)),
                              ![t].result = HealthResult(RespOf(t))]
    /\ UNCHANGED <<env, client, server, fe>>

\* the caller takes the result; the task may call again
Return(t) ==
    /\ calls[t].pc = "done"
    /\ calls' = [calls EXCEPT ![t] = Idle]
    /\ UNCHANGED <<env, client, server, fe>>

----------------------------------------------------------------------------
(* Credentials::from_env *)

EnvNames ==
    <<"ACME_DNS_USERNAME", "ACME_DNS_PASSWORD", "ACME_DNS_SUBDOMAIN",
      "ACME_DNS_FULLDOMAIN", "ACME_DNS_ALLOWFROM">>
EnvNameSet == {EnvNames[i] : i \in DOMAIN EnvNames}
AllowFromName == EnvNames[Len(EnvNames)]

\* the value of an environment variable: none, bytes that are not valid
\* Unicode, or a string
Unset == [k |-> "unset"]
NotUnicode == [k |-> "notunicode"]
Str(s) == [k |-> "str", s |-> s]

Chars == {"a", "b", " ", ","}
Whitespace == {" ", "\t"}

RequiredValues == {Unset, NotUnicode, Str(<<>>), Str(<<"v">>)}
AllowFromValues == {Unset, NotUnicode} \cup {Str(s) : s \in SeqsUpTo(Chars, MaxLen)}

EnvOf(u, p, sd, fd, af) ==
    [n \in EnvNameSet |->
        IF n = EnvNames[1] THEN u ELSE IF n = EnvNames[2] THEN p
        ELSE IF n = EnvNames[3] THEN sd ELSE IF n = EnvNames[4] THEN fd ELSE af]

Envs ==
    {EnvOf(u, p, sd, fd, af) :
        u \in RequiredValues, p \in RequiredValues, sd \in RequiredValues,
        fd \in RequiredValues, af \in AllowFromValues}

GoodEnv == EnvOf(Str(<<"v">>), Str(<<"v">>), Str(<<"v">>), Str(<<"v">>), Str(<<"a">>))

\* environments near the fully populated one
NearEnvs ==
    {e \in {EnvOf(u, p, sd, fd, af) :
               u \in RequiredValues, p \in RequiredValues, sd \in RequiredValues,
               fd \in RequiredValues, af \in {Unset, Str(<<"a">>)}} :
        Cardinality({n \in EnvNameSet : e[n] # GoodEnv[n]}) <= MaxOdd}

EmptyEnv == [n \in EnvNameSet |-> Unset]

\* std::env::var: Err(NotPresent) for no variable, Err(NotUnicode) for a value
\* that is not valid Unicode
EnvVar(e, name) ==
    IF e[name].k = "str" THEN Ok(e[name].s)
    ELSE IF e[name].k = "unset" THEN [tag |-> "NotPresent"]
    ELSE [tag |-> "NotUnicode"]

TrimStart(s) ==
    LET keep == {i \in 1..Len(s) : s[i] \notin Whitespace}
    IN  IF keep = {} THEN <<>>
        ELSE SubSeq(s, CHOOSE i \in keep : \A j \in keep : i <= j, Len(s))

\* str::trim: without the leading and the trailing whitespace
Trim(s) ==
    LET keep == {i \in 1..Len(s) : s[i] \notin Whitespace}
    IN  IF keep = {} THEN <<>>
        ELSE SubSeq(s, CHOOSE i \in keep : \A j \in keep : i <= j,
                       CHOOSE i \in keep : \A j \in keep : i >= j)

\* .map(|s| s.trim().to_string()).filter(|s| !s.is_empty()).collect()
RECURSIVE TrimAndFilter(_)
TrimAndFilter(pieces) ==
    IF pieces = <<>> THEN <<>>
    ELSE LET p == Trim(Head(pieces))
         IN  (IF p = <<>> THEN <<>> ELSE <<p>>) \o TrimAndFilter(Tail(pieces))

\* env::var("ACME_DNS_ALLOWFROM").ok().map(...).unwrap_or_default()
AllowFrom(v) ==
    IF v.tag # "Ok" THEN <<>> ELSE TrimAndFilter(Split(v.val, ","))

FeIdle == [pc |-> "idle", next |-> 0, reads |-> <<>>, vals |-> <<>>, result |-> None]

FromEnv ==
    /\ fe.pc = "idle"
    /\ \A t \in Tasks : calls[t].pc = "idle"
    /\ fe' = [FeIdle EXCEPT !.pc = "run", !.next = 1]
    /\ UNCHANGED <<env, client, server, calls>>

\* env::var(NAME).map_err(|_| Error::MissingEnv(NAME))? for the four
\* required variables, in the order of the let statements
ReadRequired ==
    /\ fe.pc = "run"
    /\ fe.next < Len(EnvNames)
    /\ LET name == EnvNames[fe.next]
           v == EnvVar(env, name)
       IN  fe' = IF v.tag # "Ok"
                 THEN [fe EXCEPT !.pc = "done", !.reads = Append(@, name),
                                 !.result = MissingEnv(name)]
                 ELSE [fe EXCEPT !.next = @ + 1, !.reads = Append(@, name),
                                 !.vals = Append(@, v.val)]
    /\ UNCHANGED <<env, client, server, calls>>

ReadAllowFrom ==
    /\ fe.pc = "run"
    /\ fe.next = Len(EnvNames)
    /\ LET v == EnvVar(env, AllowFromName)
       IN  fe' = [fe EXCEPT !.pc = "done", !.reads = Append(@, AllowFromName),
                            !.result = Ok([username |-> fe.vals[1],
                                           password |-> fe.vals[2],
                                           subdomain |-> fe.vals[3],
                                           fulldomain |-> fe.vals[4],
                                           allowfrom |-> AllowFrom(v)])]
    /\ UNCHANGED <<env, client, server, calls>>

FromEnvReturn ==
    /\ fe.pc = "done"
    /\ fe' = FeIdle
    /\ UNCHANGED <<env, client, server, calls>>

----------------------------------------------------------------------------
(* Specifications *)

NoCalls(n) == [t \in 1..n |-> Idle]

\* the outcomes of building the transport
Builds == {Ok("HttpClient"), ErrHttp}

CallStep(t) ==
    \/ \E a \in AllowFromArgs : Register(t, a)
    \/ \E a \in UpdateArgs : UpdateTxt(t, a)
    \/ Health(t)
    \/ Send(t)
    \/ SendFails(t)
    \/ \E r \in Served(server) : Respond(t, r)
    \/ RegisterFinish(t)
    \/ UpdateTxtFinish(t)
    \/ HealthFinish(t)
    \/ Return(t)

EnvStep ==
    \/ FromEnv
    \/ ReadRequired
    \/ ReadAllowFrom
    \/ FromEnvReturn

\* one caller, every base URL, every response
Init ==
    /\ env = EmptyEnv
    /\ \E text \in BaseTexts, built \in Builds : client = New(text, built)
    /\ server = AnyServer
    /\ calls = NoCalls(1)
    /\ fe = FeIdle

Next == \E t \in Tasks : CallStep(t)

Spec == Init /\ [][Next]_vars

\* Credentials::from_env alone, in every environment
InitEnv ==
    /\ env \in Envs
    /\ client = New([scheme |-> "https", rest |-> <<"/">>], Ok("HttpClient"))
    /\ server = AnyServer
    /\ calls = NoCalls(1)
    /\ fe = FeIdle

NextEnv == EnvStep

SpecEnv == InitEnv /\ [][NextEnv]_vars

\* both sources of Credentials, one operation at a time
CredsServer ==
    [statuses |-> {StatusCreated, StatusBadRequest}, payloads |-> "any",
     breaks |-> FALSE]

InitCreds ==
    /\ env \in NearEnvs
    /\ client = New([scheme |-> "https", rest |-> <<"/">>], Ok("HttpClient"))
    /\ server = CredsServer
    /\ calls = NoCalls(1)
    /\ fe = FeIdle

NextCreds == (\E t \in Tasks : CallStep(t)) \/ EnvStep

SpecCreds == InitCreds /\ [][NextCreds]_vars

\* concurrent callers on one client
ConcServer ==
    [statuses |-> {StatusOK, StatusCreated}, payloads |-> "plain", breaks |-> FALSE]

InitConc ==
    /\ env = EmptyEnv
    /\ client = New([scheme |-> "https", rest |-> <<"/">>], Ok("HttpClient"))
    /\ server = ConcServer
    /\ calls = NoCalls(MaxTasks)
    /\ fe = FeIdle

SpecConc == InitConc /\ [][Next]_vars

----------------------------------------------------------------------------
(* The claims *)

Finished(t, op) == calls[t].pc = "done" /\ calls[t].op = op
Answered(t, op) == Finished(t, op) /\ calls[t].resp # None

\* C1: when the body text of the response to register can be read, any status
\* other than 201 (200 and the other 2xx included) gives UnexpectedStatus with
\* exactly that status and the raw text, and Credentials are never returned
\* for a status other than 201.
C1_RegisterStatus ==
    \A t \in Tasks :
        /\ (Answered(t, "register") /\ calls[t].resp.readable
              /\ calls[t].resp.status # StatusCreated)
           => calls[t].result =
                 UnexpectedStatus(calls[t].resp.status, calls[t].resp.body)
        /\ (Finished(t, "register") /\ calls[t].result.tag = "Ok")
           => (calls[t].resp # None /\ calls[t].resp.status = StatusCreated)

C1_Witness ==
    \E t \in Tasks :
        /\ Answered(t, "register")
        /\ calls[t].resp.readable
        /\ calls[t].resp.status = StatusOK
        /\ calls[t].resp.body = Json(GoodObject)
        /\ calls[t].result.tag = "UnexpectedStatus"

\* C2 as stated: update_txt succeeds whenever the status is 200, and for
\* every other status fails with UnexpectedStatus carrying that status and
\* the response text.
C2_Original ==
    \A t \in Tasks :
        Answered(t, "update_txt") =>
            IF calls[t].resp.status = StatusOK
            THEN calls[t].result.tag = "Ok"
            ELSE calls[t].result =
                    UnexpectedStatus(calls[t].resp.status, calls[t].resp.body)

\* C2 as amended: once the body text has been read, update_txt succeeds when
\* the status is 200, whatever the text, and for every other status fails
\* with UnexpectedStatus carrying that status and the text; when the body
\* cannot be read it fails with the transport error, whatever the status.
C2_UpdateStatus ==
    \A t \in Tasks :
        Answered(t, "update_txt") =>
            IF ~calls[t].resp.readable THEN calls[t].result = ErrHttp
            ELSE IF calls[t].resp.status = StatusOK
                 THEN calls[t].result.tag = "Ok"
            ELSE calls[t].result =
                    UnexpectedStatus(calls[t].resp.status, calls[t].resp.body)

C2_Witness ==
    \E t \in Tasks :
        /\ Answered(t, "update_txt")
        /\ calls[t].resp.readable
        /\ calls[t].resp.status = StatusOK
        /\ calls[t].resp.body = Raw("this is not json")
        /\ calls[t].result.tag = "Ok"

\* C3: once health has a response, it succeeds on 200 without reading the
\* body, and otherwise fails with UnexpectedStatus carrying the status; a
\* body that cannot be read gives an empty body there, never a transport
\* error.
C3_HealthStatus ==
    \A t \in Tasks :
        Answered(t, "health") =>
            IF calls[t].resp.status = StatusOK
            THEN calls[t].result.tag = "Ok" /\ calls[t].reads = 0
            ELSE calls[t].result =
                    UnexpectedStatus(calls[t].resp.status,
                                     IF calls[t].resp.readable
                                     THEN calls[t].resp.body ELSE EmptyText)

C3_Witness ==
    \E t \in Tasks :
        /\ Answered(t, "health")
        /\ ~calls[t].resp.readable
        /\ calls[t].resp.status = StatusInternalServerError
        /\ calls[t].resp.body = Raw("bad request")
        /\ calls[t].result = UnexpectedStatus(StatusInternalServerError, EmptyText)

\* the required variables, by position, that hold no value at all
UnsetRequired == {i \in 1..4 : env[EnvNames[i]] = Unset}
Least(S) == CHOOSE i \in S : \A j \in S : i <= j

\* C4: from_env reads the four required variables in the fixed order; for
\* every set of them that is unset it fails with MissingEnv naming the first
\* unset one, having read no later variable, and it succeeds only when all
\* four are set.
C4_FirstUnset ==
    fe.pc = "done" =>
        /\ fe.reads = SubSeq(EnvNames, 1, Len(fe.reads))
        /\ UnsetRequired # {} =>
              /\ fe.result = MissingEnv(EnvNames[Least(UnsetRequired)])
              /\ fe.reads = SubSeq(EnvNames, 1, Least(UnsetRequired))
        /\ fe.result.tag = "Ok" => UnsetRequired = {}

\* C5 as stated: every Credentials value produced by register or by from_env
\* has a non-empty username, password, subdomain and fulldomain.
C5_Original ==
    /\ \A t \in Tasks :
          (Finished(t, "register") /\ calls[t].result.tag = "Ok") =>
              \A f \in RequiredSet : calls[t].result.val[f] # ""
    /\ (fe.pc = "done" /\ fe.result.tag = "Ok") =>
          \A f \in RequiredSet : fe.result.val[f] # <<>>

\* C5 as amended: every Credentials value produced by register or by from_env
\* holds in username, password, subdomain and fulldomain exactly the strings
\* that the 201 payload, or the environment, holds for them: each of the four
\* is present there as a string, which may be the empty string.
C5_FieldsAsGiven ==
    /\ \A t \in Tasks :
          (Finished(t, "register") /\ calls[t].result.tag = "Ok") =>
              /\ calls[t].resp.body.kind = "json"
              /\ \A f \in RequiredSet :
                    calls[t].resp.body.obj[f] = JStr(calls[t].result.val[f])
    /\ (fe.pc = "done" /\ fe.result.tag = "Ok") =>
          \A i \in 1..4 : env[EnvNames[i]] = Str(fe.result.val[Required[i]])

C5_Witness ==
    \/ \E t \in Tasks :
          /\ Finished(t, "register")
          /\ calls[t].result.tag = "Ok"
          /\ calls[t].result.val.username = ""
          /\ calls[t].result.val.password = "v"
    \/ /\ fe.pc = "done"
       /\ fe.result.tag = "Ok"
       /\ fe.result.val.username = <<>>
       /\ fe.result.val.password = <<"v">>

\* "<base>/<endpoint>": the base URL, less a closing slash, followed by a
\* slash and the endpoint
EndpointUrl(base, endpoint) ==
    [base EXCEPT !.path =
        Append(IF Last(base.path) = <<>> THEN Front(base.path) ELSE base.path,
               <<endpoint>>)]

EndpointOf(op) == IF op = "update_txt" THEN "update" ELSE op

\* C6: for every base URL that new accepts, register, update_txt and health
\* send their request to <base>/register, <base>/update and <base>/health,
\* whatever the path of the base URL and whether or not it ends with a slash.
C6_BasePlusEndpoint ==
    \A t \in Tasks :
        calls[t].sent > 0 =>
            calls[t].req.url =
                EndpointUrl(client.val.base_url, EndpointOf(calls[t].op))

\* the Credentials shape: the four required fields are strings, and
\* allowfrom is a list or is left out
HasCredentialsShape(text) ==
    /\ text.kind = "json"
    /\ \A f \in RequiredSet : text.obj[f].t = "str"
    /\ text.obj["allowfrom"].t \in {"absent", "arr"}

\* C7 as stated: JsonError is returned exactly when register has received a
\* 201 response whose body does not parse as the Credentials shape.
C7_Original ==
    \A t \in Tasks :
        calls[t].pc = "done" =>
            (calls[t].result.tag = "Json"
               <=> /\ calls[t].op = "register"
                   /\ calls[t].resp # None
                   /\ calls[t].resp.status = StatusCreated
                   /\ ~HasCredentialsShape(calls[t].resp.body))

\* C7 as amended: JsonError is returned exactly when register has received a
\* 201 response whose body text was read and does not parse as the
\* Credentials shape (when the body cannot be read the call fails with the
\* transport error instead); register with another status, update_txt and
\* health never return JsonError, and a 201 response whose body is not JSON
\* never yields Credentials.
C7_JsonError ==
    \A t \in Tasks :
        calls[t].pc = "done" =>
            /\ calls[t].result.tag = "Json"
                  <=> /\ calls[t].op = "register"
                      /\ calls[t].resp # None
                      /\ calls[t].resp.status = StatusCreated
                      /\ calls[t].resp.readable
                      /\ ~HasCredentialsShape(calls[t].resp.body)
            /\ (calls[t].resp # None /\ calls[t].resp.body.kind = "raw")
                  => calls[t].result.tag # "Ok" \/ calls[t].op # "register"

C7_Witness ==
    \E t \in Tasks :
        /\ Answered(t, "register")
        /\ calls[t].resp.status = StatusCreated
        /\ calls[t].resp.readable
        /\ calls[t].resp.body = Raw("this is not json")
        /\ calls[t].result = ErrJson

\* The allow-list of a string, by position: the cuts are the commas and the
\* two ends; a piece lies between two neighbouring cuts and is kept when it
\* holds a character that is not whitespace; a kept piece counts from its
\* first such character to its last.
Cuts(s) == {0, Len(s) + 1} \cup {i \in 1..Len(s) : s[i] = ","}
NextCut(s, c) == Least({d \in Cuts(s) : d > c})
Inked(s, c) == {i \in (c + 1)..(NextCut(s, c) - 1) : s[i] \notin Whitespace}
KeptCuts(s) == {c \in Cuts(s) : c <= Len(s) /\ Inked(s, c) # {}}
Kth(S, k) == CHOOSE x \in S : Cardinality({y \in S : y < x}) = k - 1
Greatest(S) == CHOOSE i \in S : \A j \in S : i >= j
PieceAt(s, c) == SubSeq(s, Least(Inked(s, c)), Greatest(Inked(s, c)))
AllowListOf(s) ==
    [k \in 1..Cardinality(KeptCuts(s)) |-> PieceAt(s, Kth(KeptCuts(s), k))]

\* C8: from_env builds allowfrom from ACME_DNS_ALLOWFROM by splitting on
\* commas, trimming each piece, dropping the pieces that are then empty, and
\* keeping the order; unset, or only commas and whitespace, gives the empty
\* sequence; no element is empty or has whitespace at either end.
C8_AllowFrom ==
    (fe.pc = "done" /\ fe.result.tag = "Ok") =>
        LET got == fe.result.val.allowfrom
            v == env[AllowFromName]
        IN  /\ v = Unset => got = <<>>
            /\ v.k = "str" => got = AllowListOf(v.s)
            /\ (v.k = "str" /\ \A i \in 1..Len(v.s) : v.s[i] \in Whitespace \cup {","})
                  => got = <<>>
            /\ \A i \in 1..Len(got) :
                  /\ got[i] # <<>>
                  /\ Head(got[i]) \notin Whitespace
                  /\ Last(got[i]) \notin Whitespace

C8_Witness ==
    /\ fe.pc = "done"
    /\ fe.result.tag = "Ok"
    /\ env[AllowFromName] = Str(<<" ", "b", ",">>)
    /\ fe.result.val.allowfrom = << <<"b">> >>

\* C9: an invocation of register, update_txt or health sends at most one
\* request: a transport failure, an unexpected status or a parse failure is
\* returned after the one request, and a call whose URL join fails has sent
\* none.
C9_AtMostOneRequest ==
    \A t \in Tasks :
        /\ calls[t].sent <= 1
        /\ (calls[t].pc = "done" /\ calls[t].result.tag = "Url") => calls[t].sent = 0
        /\ (calls[t].pc = "done" /\ calls[t].result.tag \in {"UnexpectedStatus", "Json"})
           => calls[t].sent = 1

C9_Witness ==
    \E t \in Tasks :
        /\ Finished(t, "register")
        /\ calls[t].resp = None
        /\ calls[t].result = ErrHttp
        /\ calls[t].sent = 1

\* what a call returns, from its own operation and its own response
OwnResult(c) ==
    IF c.resp = None THEN c.result
    ELSE IF c.op = "register" THEN RegisterResult(c.resp)
    ELSE IF c.op = "update_txt" THEN UpdateResult(c.resp)
    ELSE HealthResult(c.resp)

C10_ResultIsOwn ==
    \A t \in Tasks :
        /\ calls[t].pc = "done" => calls[t].result = OwnResult(calls[t])
        /\ (calls[t].pc = "done" /\ calls[t].resp = None)
              => calls[t].result.tag \in {"Url", "Http"}

\* C10: in every interleaving of concurrent register, update_txt and health
\* calls on one client, the result of each call is the one its own operation
\* gives for the response to its own request, and the client (its base URL)
\* stays as constructed through every step.
C10_Independent ==
    /\ []C10_ResultIsOwn
    /\ [][client' = client]_vars
    /\ [][\A t \in Tasks, u \in Tasks :
            (calls'[t] # calls[t] /\ u # t) => calls'[u] = calls[u]]_vars

C10_Witness ==
    \E t \in Tasks, u \in Tasks :
        /\ t # u
        /\ Answered(t, "register")
        /\ Answered(u, "register")
        /\ calls[t].resp.status = StatusCreated
        /\ calls[u].resp.status = StatusOK
        /\ calls[t].result.tag = "Ok"
        /\ calls[u].result.tag = "UnexpectedStatus"

====
